---- MODULE Spec2Model ----
(***************************************************************************)
(* Model of mimalloc-glue.c: an LD_PRELOAD shim that resolves, per symbol  *)
(* of the malloc family, which implementation serves it (resolve_func),    *)
(* stores the result in a lookup table (lut, filled by the constructor     *)
(* init) and forwards every call through that table (the wrappers).        *)
(***************************************************************************)
EXTENDS Naturals, Sequences, FiniteSets

(***************************************************************************)
(* The symbol set: the fields of struct malloc_lut, in declaration order.  *)
(***************************************************************************)
Names ==
  << "malloc", "calloc", "realloc", "free", "strdup", "strndup", "realpath",
     "reallocf", "malloc_size", "malloc_usable_size", "malloc_good_size",
     "cfree", "valloc", "pvalloc", "reallocarray", "reallocarr", "memalign",
     "aligned_alloc", "posix_memalign", "_posix_memalign" >>

NumSymbols == 20

Symbols == { Names[i] : i \in 1..NumSymbols }

\* The wrappers whose return type is void: free and cfree.
VoidSymbols == { "free", "cfree" }

\* The entry points the loader and the C library call for their own
\* bookkeeping while init runs.
AllocFamily == { "malloc", "calloc", "realloc", "free" }

(***************************************************************************)
(* Addresses.  A function address is the pair of the library that defines  *)
(* it and the symbol's name; NULL is what dlsym and dlopen return for      *)
(* "absent".                                                               *)
(***************************************************************************)
NULL == << "NULL" >>

Libraries == { "libc", "mimalloc", "other" }

Addr(lib, symbol) == << lib, symbol >>

LibOf(addr) == addr[1]

\* Diagnostics written to stderr before abort().
NoDiag == << >>

LibcNotLoaded == << "libc.so.6 not loaded" >>

MimallocNotLoaded == << "Failed to load libmimalloc.so" >>

NotDefined(name) == << name, "() is not defined" >>

(***************************************************************************)
(* Bounds of the model.                                                    *)
(***************************************************************************)
\* Arguments of a forwarded call are the words 0..MaxArg.
MaxArg == 1

Args == 0..MaxArg

\* Threads of the process; the first runs the constructors and then main().
Threads == { "t1", "t2" }

InitThread == "t1"

\* The symbols whose definitions vary between the environments of Spec.
FocusSymbols == { "malloc", "reallocf" }

VARIABLES
  env,      \* what the dynamic loader answers: fixed for the process lifetime
  lut,      \* the lookup table: symbol -> address
  initpc,   \* init's position: "install", "resolve", "update", "done"
  idx,      \* index in Names of the next symbol init handles in this phase
  res,      \* init's local variables holding resolve_func's results
  loader,   \* how often each loader entry has been called so far
  thr,      \* per thread: the wrapper it is in and what its last call did
  live,     \* the blocks obtained through the shim and not yet released
  status,   \* "running", "aborted" (abort() was called), "crashed"
  diag      \* the diagnostic on stderr, NoDiag while none was written

vars == << env, lut, initpc, idx, res, loader, thr, live, status, diag >>

(***************************************************************************)
(* The dynamic loader, as the shim consumes it.  env records the process   *)
(* the shim is loaded into:                                                *)
(*   libc     - dlopen("libc.so.6", RTLD_NOW | RTLD_NOLOAD) succeeds       *)
(*   mimalloc - dlopen("libmimalloc.so", RTLD_NOW) succeeds                *)
(*   order    - the libraries in the symbol search order after the shim;   *)
(*              they are searched third party first, then                  *)
(*              libmimalloc.so, then libc                                  *)
(*   v, defs  - the libraries that define the symbol v                     *)
(* Every other symbol is defined by libc and by libmimalloc.so and by no   *)
(* third party.                                                            *)
(***************************************************************************)
Defines(lib, symbol) ==
  IF symbol = env.v THEN lib \in env.defs ELSE lib \in { "libc", "mimalloc" }

dlopen_libc == IF env.libc THEN "libc" ELSE "none"

dlopen_mimalloc == IF env.mimalloc THEN "mimalloc" ELSE "none"

\* dlsym(handle, symbol) for a library handle, and for RTLD_NEXT the first
\* definition in the search order.
dlsym(handle, symbol) ==
  CASE handle \in { "libc", "mimalloc" } ->
         IF Defines(handle, symbol) THEN Addr(handle, symbol) ELSE NULL
    [] handle = "RTLD_NEXT" ->
         IF "other" \in env.order /\ Defines("other", symbol)
         THEN Addr("other", symbol)
         ELSE IF "mimalloc" \in env.order /\ Defines("mimalloc", symbol)
         THEN Addr("mimalloc", symbol)
         ELSE IF "libc" \in env.order /\ Defines("libc", symbol)
         THEN Addr("libc", symbol)
         ELSE NULL

LoaderCalls ==
  { "dlopen_libc", "dlopen_mimalloc", "dlsym_libc", "dlsym_mimalloc", "dlsym_next" }

\* The environments in which the symbols of S vary.  A library in the
\* search order is loaded; a third party is there when it defines v.
Environments(S) ==
  { e \in [ libc : BOOLEAN, mimalloc : BOOLEAN, order : SUBSET Libraries,
            v : S, defs : SUBSET Libraries ] :
      /\ "libc" \in e.order => e.libc
      /\ "mimalloc" \in e.order => e.mimalloc
      /\ "other" \in e.order <=> "other" \in e.defs }

\* The usual process: libc, when loaded, is in the search order and
\* libmimalloc.so is not.
Usual(e) == ("libc" \in e.order <=> e.libc) /\ "mimalloc" \notin e.order

\* resolve_func without the comparison against libc and libmimalloc.so.
resolve_func_next_only(symbol) ==
  LET libc_so == dlopen_libc
      libmimalloc_so == dlopen_mimalloc
      next_sym == dlsym("RTLD_NEXT", symbol)
  IN  IF libc_so = "none"
      THEN [ abort |-> TRUE, diag |-> LibcNotLoaded, value |-> NULL,
             calls |-> << "dlopen_libc" >> ]
      ELSE IF libmimalloc_so = "none"
      THEN [ abort |-> TRUE, diag |-> MimallocNotLoaded, value |-> NULL,
             calls |-> << "dlopen_libc", "dlopen_mimalloc" >> ]
      ELSE [ abort |-> FALSE, diag |-> NoDiag, value |-> next_sym,
             calls |-> << "dlopen_libc", "dlopen_mimalloc", "dlsym_libc",
                          "dlsym_mimalloc", "dlsym_next" >> ]

\* resolve_func opening both libraries before it checks either handle.
resolve_func_open_both(symbol) ==
  LET libc_so == dlopen_libc
      libmimalloc_so == dlopen_mimalloc
      libc_sym == dlsym(libc_so, symbol)
      libmimalloc_sym == dlsym(libmimalloc_so, symbol)
      next_sym == dlsym("RTLD_NEXT", symbol)
  IN  IF libc_so = "none"
      THEN [ abort |-> TRUE, diag |-> LibcNotLoaded, value |-> NULL,
             calls |-> << "dlopen_libc", "dlopen_mimalloc" >> ]
      ELSE IF libmimalloc_so = "none"
      THEN [ abort |-> TRUE, diag |-> MimallocNotLoaded, value |-> NULL,
             calls |-> << "dlopen_libc", "dlopen_mimalloc" >> ]
      ELSE [ abort |-> FALSE, diag |-> NoDiag,
             value |-> IF next_sym = libc_sym \/ next_sym = libmimalloc_sym
                       THEN libmimalloc_sym
                       ELSE next_sym,
             calls |-> << "dlopen_libc", "dlopen_mimalloc", "dlsym_libc",
                          "dlsym_mimalloc", "dlsym_next" >> ]

\* resolve_func falling back to the next definition when libmimalloc.so
\* does not load.
resolve_func_fallback(symbol) ==
  LET libc_so == dlopen_libc
      libmimalloc_so == dlopen_mimalloc
      libc_sym == dlsym(libc_so, symbol)
      libmimalloc_sym == dlsym(libmimalloc_so, symbol)
      next_sym == dlsym("RTLD_NEXT", symbol)
  IN  IF libc_so = "none"
      THEN [ abort |-> TRUE, diag |-> LibcNotLoaded, value |-> NULL,
             calls |-> << "dlopen_libc" >> ]
      ELSE IF libmimalloc_so = "none"
      THEN [ abort |-> FALSE, diag |-> NoDiag, value |-> next_sym,
             calls |-> << "dlopen_libc", "dlopen_mimalloc", "dlsym_next" >> ]
      ELSE [ abort |-> FALSE, diag |-> NoDiag,
             value |-> IF next_sym = libc_sym \/ next_sym = libmimalloc_sym
                       THEN libmimalloc_sym
                       ELSE next_sym,
             calls |-> << "dlopen_libc", "dlopen_mimalloc", "dlsym_libc",
                          "dlsym_mimalloc", "dlsym_next" >> ]

(***************************************************************************)
(* resolve_func (lines 83-115): the loader calls it makes, in order, and   *)
(* either the abort it ends in or the address it returns.                  *)
(***************************************************************************)
resolve_func(symbol) ==
  LET libc_so == dlopen_libc
      libmimalloc_so == dlopen_mimalloc
      libc_sym == dlsym(libc_so, symbol)
      libmimalloc_sym == dlsym(libmimalloc_so, symbol)
      next_sym == dlsym("RTLD_NEXT", symbol)
  IN  IF libc_so = "none"
      THEN [ abort |-> TRUE, diag |-> LibcNotLoaded, value |-> NULL,
             calls |-> << "dlopen_libc" >> ]
      ELSE IF libmimalloc_so = "none"
      THEN [ abort |-> TRUE, diag |-> MimallocNotLoaded, value |-> NULL,
             calls |-> << "dlopen_libc", "dlopen_mimalloc" >> ]
      ELSE [ abort |-> FALSE, diag |-> NoDiag,
             value |-> IF next_sym = libc_sym \/ next_sym = libmimalloc_sym
                       THEN libmimalloc_sym
                       ELSE next_sym,
             calls |-> << "dlopen_libc", "dlopen_mimalloc", "dlsym_libc",
                          "dlsym_mimalloc", "dlsym_next" >> ]

\* check_defined that never aborts.
check_defined_skipped(symbol) == TRUE

\* check_defined (lines 121-126): TRUE when it returns, FALSE when it aborts.
check_defined(symbol) == symbol # NULL

\* The loader call counts after the calls of the sequence cs.
Called(cs) ==
  [ c \in LoaderCalls |->
      loader[c] + Cardinality({ i \in 1..Len(cs) : cs[i] = c }) ]

Idle == [ pc |-> "idle", sym |-> "-", out |-> << >> ]

InitWith(E) ==
  /\ env \in E
  /\ lut = [ s \in Symbols |-> NULL ]
  /\ initpc = "install"
  /\ idx = 1
  /\ res = [ s \in Symbols |-> NULL ]
  /\ loader = [ c \in LoaderCalls |-> 0 ]
  /\ live = {}
  /\ thr = [ t \in Threads |-> Idle ]
  /\ status = "running"
  /\ diag = NoDiag

\* init advances only while its own thread is not inside a wrapper: a call
\* the loader makes on this thread returns before the loader does.
InitRuns == status = "running" /\ thr[InitThread].pc = "idle"

\* After the last symbol of a phase, init moves to the next phase.
Advance(next) ==
  IF idx < NumSymbols
  THEN idx' = idx + 1 /\ initpc' = initpc
  ELSE idx' = 1 /\ initpc' = next

\* init, lines 137-156: lut.X = dlsym(RTLD_NEXT, "X").
InitInstall ==
  /\ InitRuns
  /\ initpc = "install"
  /\ lut' = [ lut EXCEPT ![Names[idx]] = dlsym("RTLD_NEXT", Names[idx]) ]
  /\ loader' = Called(<< "dlsym_next" >>)
  /\ Advance("resolve")
  /\ UNCHANGED << env, res, thr, live, status, diag >>

\* init, lines 159-178: void* X = resolve_func("X").
InitResolve ==
  /\ InitRuns
  /\ initpc = "resolve"
  /\ LET r == resolve_func(Names[idx])
     IN  /\ loader' = Called(r.calls)
         /\ IF r.abort
            THEN /\ status' = "aborted"
                 /\ diag' = r.diag
                 /\ UNCHANGED << res, initpc, idx >>
            ELSE /\ res' = [ res EXCEPT ![Names[idx]] = r.value ]
                 /\ Advance("update")
                 /\ UNCHANGED << status, diag >>
  /\ UNCHANGED << env, lut, thr, live >>

\* The bulk update leaving the temporary defaults in place.
InitUpdate_skipped ==
  /\ InitRuns
  /\ initpc = "update"
  /\ Advance("done")
  /\ UNCHANGED << env, lut, res, loader, thr, live, status, diag >>

\* init, lines 181-200: lut.X = X.
InitUpdate ==
  /\ InitRuns
  /\ initpc = "update"
  /\ lut' = [ lut EXCEPT ![Names[idx]] = res[Names[idx]] ]
  /\ Advance("done")
  /\ UNCHANGED << env, res, loader, thr, live, status, diag >>

(***************************************************************************)
(* The forwarding wrappers (lines 206-323).  All twenty have one shape:    *)
(*     check_defined(lut.X, "X");  return lut.X(args);                     *)
(* The arguments are abstracted to one word, the implementation behind an  *)
(* address to the value it returns for that word.                          *)
(***************************************************************************)
\* Two wrappers reading each other's field.
Entry_swapped(symbol) ==
  CASE symbol = "malloc_size" -> "malloc_usable_size"
    [] symbol = "malloc_usable_size" -> "malloc_size"
    [] OTHER -> symbol

\* The table field wrapper `symbol` reads, and the name it reports.
Entry(symbol) == symbol

DiagName(symbol) == symbol

\* What the implementation at address fn returns when called with arg.
Result(fn, arg) == << fn, arg >>

Void == << "void" >>

\* Second statement of wrapper `symbol` called with arg: the indirect calls
\* it makes, each the address called and the argument handed over, and the
\* value it returns to its caller.
Forward(symbol, arg) ==
  LET fn == lut[Entry(symbol)]
  IN  [ arg |-> arg,
        calls |-> << << fn, arg >> >>,
        ret |-> IF symbol \in VoidSymbols THEN Void ELSE Result(fn, arg) ]

\* Who may call what: until init has returned, only the loader and the C
\* library call, on init's own thread and from inside a loader call init
\* makes (dlsym, dlopen), into the allocation family; after that every
\* thread calls every wrapper.
MayCall(t, symbol) ==
  \/ initpc = "done"
  \/ /\ initpc \in { "install", "resolve" }
     /\ t = InitThread
     /\ symbol \in AllocFamily

\* First statement of a wrapper: check_defined(lut.X, "X").
WrapperCheck(t, symbol) ==
  /\ status = "running"
  /\ thr[t].pc = "idle"
  /\ MayCall(t, symbol)
  /\ IF check_defined(lut[Entry(symbol)])
     THEN /\ thr' = [ thr EXCEPT ![t] = [ pc |-> "checked", sym |-> symbol,
                                           out |-> << >> ] ]
          /\ UNCHANGED << status, diag >>
     ELSE /\ status' = "aborted"
          /\ diag' = NotDefined(DiagName(symbol))
          /\ thr' = [ thr EXCEPT ![t] = [ pc |-> "aborting", sym |-> symbol,
                                           out |-> << >> ] ]
  /\ UNCHANGED << env, lut, initpc, idx, res, loader, live >>

\* A wrapper that looks its symbol up again and stores it when it is called.
WrapperForward_relookup(t, arg) ==
  /\ status = "running"
  /\ thr[t].pc = "checked"
  /\ lut' = [ lut EXCEPT ![thr[t].sym] = dlsym("RTLD_NEXT", thr[t].sym) ]
  /\ thr' = [ thr EXCEPT ![t] = [ pc |-> "idle", sym |-> thr[t].sym,
                                   out |-> << Forward(thr[t].sym, arg) >> ] ]
  /\ UNCHANGED << env, initpc, idx, res, loader, status, diag >>

\* Second statement of a wrapper: the call through the table.  A call
\* through a null entry is a jump to address 0.
WrapperForward(t, arg) ==
  /\ status = "running"
  /\ thr[t].pc = "checked"
  /\ LET f == Forward(thr[t].sym, arg)
     IN  IF \E i \in 1..Len(f.calls) : f.calls[i][1] = NULL
         THEN /\ status' = "crashed"
              /\ UNCHANGED thr
         ELSE /\ thr' = [ thr EXCEPT ![t] = [ pc |-> "idle", sym |-> thr[t].sym,
                                               out |-> << f >> ] ]
              /\ UNCHANGED status
  /\ UNCHANGED << env, lut, initpc, idx, res, loader, diag >>

(***************************************************************************)
(* The allocators behind the addresses.  A block is the value an           *)
(* allocating call returned; it belongs to the library whose function      *)
(* returned it.  malloc and calloc take a size and return a block, free    *)
(* takes a block, realloc takes a block and returns another.               *)
(***************************************************************************)
\* At most MaxLive blocks are live at a time.
MaxLive == 1

OwnerOf(block) == LibOf(block[1])

\* The arguments the process passes to wrapper `symbol`: a size, or a block
\* it holds (realloc: one that malloc or calloc returned).
HeapArgs(symbol) ==
  CASE symbol \in { "malloc", "calloc" } -> { MaxArg }
    [] symbol = "free" -> live
    [] symbol = "realloc" -> { b \in live : b[1][2] \in { "malloc", "calloc" } }

\* The live blocks after wrapper `symbol` forwarded the call f.
Track(symbol, f) ==
  CASE symbol \in { "malloc", "calloc" } -> live \cup { f.ret }
    [] symbol = "free" -> live \ { f.arg }
    [] symbol = "realloc" -> (live \ { f.arg }) \cup { f.ret }

HeapCheck(symbol) ==
  /\ symbol \in { "malloc", "calloc" } => Cardinality(live) < MaxLive
  /\ HeapArgs(symbol) # {}
  /\ WrapperCheck(InitThread, symbol)

HeapForward ==
  /\ thr[InitThread].pc = "checked"
  /\ \E arg \in HeapArgs(thr[InitThread].sym) :
       /\ WrapperForward(InitThread, arg)
       /\ live' = IF status' = "running"
                  THEN Track(thr[InitThread].sym,
                             Forward(thr[InitThread].sym, arg))
                  ELSE live

Init == InitWith({ e \in Environments(FocusSymbols) : Usual(e) })

Next ==
  \/ InitInstall
  \/ InitResolve
  \/ InitUpdate
  \/ \E t \in Threads, symbol \in Symbols : WrapperCheck(t, symbol)
  \/ \E t \in Threads, arg \in Args : WrapperForward(t, arg) /\ UNCHANGED live

\* The process: init, the calls made while it runs, and the threads' calls.
Spec == Init /\ [][Next]_vars

\* init alone, in every environment of every symbol.
InitLoad == InitWith(Environments(Symbols))

NextLoad ==
  \/ InitInstall
  \/ InitResolve
  \/ InitUpdate

SpecLoad == InitLoad /\ [][NextLoad]_vars

\* One thread (the one that runs init, then main), its allocation-family
\* calls and the blocks it holds.
NextHeap ==
  \/ InitInstall
  \/ InitResolve
  \/ InitUpdate
  \/ \E symbol \in AllocFamily : HeapCheck(symbol)
  \/ HeapForward

SpecHeap == Init /\ [][NextHeap]_vars

(***************************************************************************)
(* Properties.                                                             *)
(***************************************************************************)
\* The three addresses resolve_func obtains for a symbol.
PlatformAddr(s) == dlsym("libc", s)

AlternativeAddr(s) == dlsym("mimalloc", s)

NextAddr(s) == dlsym("RTLD_NEXT", s)

Index(s) == CHOOSE i \in 1..NumSymbols : Names[i] = s

\* init has called resolve_func for s and holds its result.
Resolved(s) ==
  \/ initpc \in { "update", "done" }
  \/ initpc = "resolve" /\ Index(s) < idx

\* C1: with both libraries loaded, resolve_func returns the alternative
\* allocator's address A when the next address N equals the platform's P
\* or equals A, and returns N unchanged when N differs from both; the
\* result is a function of (P, A, N) alone.
C1_DecisionRule ==
  \A s \in Symbols :
    Resolved(s) =>
      /\ env.libc /\ env.mimalloc
      /\ (NextAddr(s) = PlatformAddr(s) \/ NextAddr(s) = AlternativeAddr(s))
           => res[s] = AlternativeAddr(s)
      /\ (NextAddr(s) # PlatformAddr(s) /\ NextAddr(s) # AlternativeAddr(s))
           => res[s] = NextAddr(s)

\* Some symbol went to a third party's definition while the others went to
\* the alternative allocator.
C1_Witness ==
  /\ initpc = "done"
  /\ \E s \in Symbols :
       /\ res[s] # NULL /\ LibOf(res[s]) = "other"
       /\ PlatformAddr(s) # NULL /\ AlternativeAddr(s) # NULL
  /\ \E s \in Symbols :
       /\ res[s] = AlternativeAddr(s) /\ res[s] # NULL
       /\ NextAddr(s) = PlatformAddr(s)

\* C2: after an initialization that completes, all resolved entries of the
\* table come from one and the same implementation.
C2_NoAllocatorMix ==
  initpc = "done" =>
    \A s1 \in Symbols, s2 \in Symbols :
      lut[s1] # NULL /\ lut[s2] # NULL => LibOf(lut[s1]) = LibOf(lut[s2])

\* C9: after initialization every table entry is unresolved, the
\* alternative allocator's address, or a third party's next address that
\* differs from both the platform's and the alternative's; none is the
\* platform default's address.
C9_Provenance ==
  initpc = "done" =>
    \A s \in Symbols :
      /\ \/ lut[s] = NULL
         \/ lut[s] = AlternativeAddr(s)
         \/ /\ lut[s] = NextAddr(s)
            /\ NextAddr(s) # PlatformAddr(s)
            /\ NextAddr(s) # AlternativeAddr(s)
      /\ lut[s] # NULL => LibOf(lut[s]) # "libc"

\* The platform default was the next definition of a symbol and the table
\* holds the alternative allocator's address for it; another entry is
\* unresolved.
C9_Witness ==
  /\ initpc = "done"
  /\ \E s \in Symbols :
       /\ NextAddr(s) # NULL /\ LibOf(NextAddr(s)) = "libc"
       /\ lut[s] # NULL /\ LibOf(lut[s]) = "mimalloc"
  /\ \E s \in Symbols : lut[s] = NULL /\ PlatformAddr(s) # NULL

\* The abort was check_defined's, in a call of thread t to wrapper s.
AbortedIn(t, s) ==
  /\ status = "aborted"
  /\ thr[t].pc = "aborting"
  /\ thr[t].sym = s
  /\ diag = NotDefined(s)

\* init itself called abort(), in resolve_func.
AbortedByInit ==
  /\ status = "aborted"
  /\ \A t \in Threads : thr[t].pc # "aborting"

\* C3: a symbol that resolves to NULL does not abort init: with both
\* libraries loaded init never aborts.  The process aborts only in a call
\* to a wrapper whose entry is NULL, naming that symbol, and never calls
\* through a NULL entry; a call to a wrapper whose entry is resolved does
\* not abort.
C3_LazyFatality ==
  /\ status # "crashed"
  /\ env.libc /\ env.mimalloc => ~AbortedByInit
  /\ status = "aborted" /\ ~AbortedByInit =>
       \E t \in Threads :
         /\ AbortedIn(t, thr[t].sym)
         /\ lut[thr[t].sym] = NULL
         /\ \A u \in Threads \ {t} : thr[u].pc # "aborting"
  /\ \A t \in Threads : thr[t].pc = "checked" => lut[thr[t].sym] # NULL

\* init completed with reallocf unresolved, a thread called malloc and got
\* its result, and another thread's first call to reallocf aborted.
C3_Witness ==
  /\ initpc = "done"
  /\ lut["reallocf"] = NULL
  /\ thr["t1"].sym = "malloc" /\ thr["t1"].out # << >>
  /\ AbortedIn("t2", "reallocf")

\* C4 (as claimed): when dlopen reports libc.so.6 as not loaded the process
\* aborts naming it, no dlsym for any symbol has been called before and
\* libmimalloc.so has not been opened.
C4_NoLookupBeforeAbort ==
  loader["dlopen_libc"] > 0 /\ ~env.libc =>
    /\ status = "aborted" /\ diag = LibcNotLoaded
    /\ loader["dlopen_mimalloc"] = 0
    /\ loader["dlsym_libc"] = 0
    /\ loader["dlsym_mimalloc"] = 0
    /\ loader["dlsym_next"] = 0

\* C4 (amended): when dlopen reports libc.so.6 as not loaded the process
\* aborts in the first resolve_func naming it; libmimalloc.so has not been
\* opened and nothing has been looked up in either library; the only
\* lookups made are init's twenty dlsym(RTLD_NEXT, X) for the temporary
\* defaults, which are what the table holds.
C4_AbortOnMissingLibc ==
  loader["dlopen_libc"] > 0 /\ ~env.libc =>
    /\ status = "aborted" /\ diag = LibcNotLoaded
    /\ initpc = "resolve" /\ idx = 1
    /\ loader["dlopen_libc"] = 1
    /\ loader["dlopen_mimalloc"] = 0
    /\ loader["dlsym_libc"] = 0
    /\ loader["dlsym_mimalloc"] = 0
    /\ loader["dlsym_next"] = NumSymbols
    /\ \A s \in Symbols : lut[s] = NextAddr(s)

\* init aborted because libc.so.6 is not loaded, although libmimalloc.so
\* could have been loaded.
C4_Witness ==
  /\ AbortedByInit
  /\ diag = LibcNotLoaded
  /\ env.mimalloc

\* C8: when libmimalloc.so fails to load the process aborts in init naming
\* it, the table still holds the temporary defaults, init never returns and
\* no thread ever runs a wrapper after init: there is no fallback.
C8_AbortOnMissingMimalloc ==
  /\ loader["dlopen_mimalloc"] > 0 /\ ~env.mimalloc =>
       /\ status = "aborted" /\ diag = MimallocNotLoaded
       /\ initpc = "resolve" /\ idx = 1
       /\ \A s \in Symbols : lut[s] = NextAddr(s)
  /\ ~env.mimalloc =>
       /\ initpc \in { "install", "resolve" }
       /\ \A s \in Symbols : lut[s] \in { NULL, NextAddr(s) }
       /\ \A t \in Threads \ { InitThread } : thr[t] = Idle

\* init aborted because libmimalloc.so did not load, after the loader had
\* called malloc through the temporary default.
C8_Witness ==
  /\ AbortedByInit
  /\ diag = MimallocNotLoaded
  /\ thr[InitThread].sym = "malloc" /\ thr[InitThread].out # << >>

\* The address the last completed call of thread t was forwarded to.
Target(t) == thr[t].out[1].calls[1][1]

\* C5: init has installed the temporary default in every entry before the
\* first resolve_func and installs no final value until all symbols are
\* resolved; every allocation-family call made while init runs is forwarded
\* to a non-null temporary default and never finds a NULL entry (stated
\* here for the environments in which both libraries load and each of
\* malloc, calloc, realloc and free has a next definition).
C5_BootstrapDefaults ==
  /\ initpc = "resolve" => \A s \in Symbols : lut[s] = NextAddr(s)
  /\ /\ initpc # "done"
     /\ env.libc /\ env.mimalloc
     /\ \A s \in AllocFamily : NextAddr(s) # NULL
     =>
       /\ thr[InitThread].pc # "aborting"
       /\ thr[InitThread].pc = "checked" =>
            lut[thr[InitThread].sym] = NextAddr(thr[InitThread].sym)
       /\ thr[InitThread].out # << >> =>
            /\ Target(InitThread) = NextAddr(thr[InitThread].sym)
            /\ Target(InitThread) # NULL

\* C6 (as claimed): an entry, once populated, is never written again.
C6_PopulatedOnce ==
  [][ \A s \in Symbols : lut[s] # NULL => lut'[s] = lut[s] ]_vars

\* C6 (amended): only init writes the table, each entry in its turn: the
\* temporary default in the install phase, the resolved value in the bulk
\* update; no step of a wrapper writes it, nothing writes it once init has
\* returned, and every call made after that is forwarded to the address
\* the table holds for its symbol.
C6_FrozenAfterInit ==
  /\ [][ /\ initpc = "done" => lut' = lut
         /\ (\E t \in Threads : thr'[t] # thr[t]) => lut' = lut
         /\ \A s \in Symbols :
              lut'[s] # lut[s] =>
                /\ s = Names[idx]
                /\ \/ initpc = "install" /\ lut'[s] = NextAddr(s)
                   \/ initpc = "update" /\ lut'[s] = res[s] ]_vars
  /\ [](\A t \in Threads \ { InitThread } :
          thr[t].out # << >> => Target(t) = lut[thr[t].sym])

\* After init replaced malloc's temporary default, two threads are inside
\* malloc and free at the same time.
C6_Witness ==
  /\ initpc = "done"
  /\ NextAddr("malloc") # NULL /\ lut["malloc"] # NextAddr("malloc")
  /\ thr["t1"].pc = "checked" /\ thr["t1"].sym = "malloc"
  /\ thr["t2"].pc = "checked" /\ thr["t2"].sym = "free"

\* C7: a call to a wrapper whose entry is non-null calls the address in the
\* entry of the same name exactly once, with the caller's argument, and
\* returns what it returned (nothing for free and cfree); it changes
\* neither the table nor any other state of the shim.
C7_Transparency ==
  [][ \A t \in Threads :
        thr[t].pc = "checked" /\ thr'[t] # thr[t] =>
          /\ thr'[t].pc = "idle"
          /\ thr'[t].sym = thr[t].sym
          /\ Len(thr'[t].out) = 1
          /\ \E arg \in Args :
               thr'[t].out[1] =
                 [ arg |-> arg,
                   calls |-> << << lut[thr[t].sym], arg >> >>,
                   ret |-> IF thr[t].sym \in VoidSymbols
                           THEN Void
                           ELSE Result(lut[thr[t].sym], arg) ]
          /\ \A u \in Threads \ {t} : thr'[u] = thr[u]
          /\ UNCHANGED << env, lut, initpc, idx, res, loader, status, diag >>
    ]_vars

\* After init, one thread got posix_memalign's result for the largest
\* argument from the alternative allocator and another returned from free.
C7_Witness ==
  /\ initpc = "done"
  /\ thr["t1"].sym = "posix_memalign" /\ thr["t1"].out # << >>
  /\ thr["t1"].out[1].arg = MaxArg
  /\ thr["t1"].out[1].ret = Result(Addr("mimalloc", "posix_memalign"), MaxArg)
  /\ thr["t2"].sym = "free" /\ thr["t2"].out # << >>
  /\ thr["t2"].out[1].ret = Void

\* No third party defines any symbol ahead of libc.
NoInterposer ==
  \A s \in Symbols : NextAddr(s) # NULL => LibOf(NextAddr(s)) # "other"

\* C10: every block got from malloc, calloc or realloc through the shim is
\* released or resized by the allocator that produced it (stated here for
\* the environments in which both libraries load and no third party
\* interposes).
C10_SameAllocator ==
  env.libc /\ env.mimalloc /\ NoInterposer =>
    \A t \in Threads :
      thr[t].out # << >> /\ thr[t].sym \in { "free", "realloc" } =>
        LibOf(Target(t)) = OwnerOf(thr[t].out[1].arg)

====
